---- MODULE Spec2Model ----
(***************************************************************************)
(* term-table: a buffered, multi-layout text table renderer.               *)
(*                                                                         *)
(* A string is a sequence of one-character strings; the token ESC stands   *)
(* for one whole terminal escape sequence (it has no visible width).       *)
(* A layout handle is the 0-based index Renderer::register_layout returns; *)
(* rules[h + 1] is the entry of handle h.  An Option<usize> is a sequence  *)
(* of length at most one (<<>> is None, <<n>> is Some(n)).                 *)
(***************************************************************************)
EXTENDS Integers, Sequences, FiniteSets, TLC

(***************************************************************************)
(* Bounds of the model.                                                    *)
(***************************************************************************)
\* widest visible width of a value that is written
MaxWidth == 2
\* largest number of rows buffered between two flushes
MaxPending == 3
\* the same, for the one-column Renderer whose ColumnLayout is drawn
MaxBatch == 2
\* largest lower_bound / upper_bound a drawn ColumnLayout is configured with
MaxBound == 2
\* largest min / max handed to a direct ColumnLayout::render call
MaxExtremum == 5

\* the width of the fixed_width Column of the pool
PoolFixedWidth == 1

\* the N of RowLayout::with_cols::<N>, and the column count of the row built
\* beside it with extend_column_layouts and push_column_layout
SharedCols == 2

\* usize::MAX, the "unset" minimum of a Column (the largest integer TLC
\* represents stands for it: it is only ever compared with widths)
UsizeMax == 2147483647

ESC == "ESC"

Min(a, b) == IF a < b THEN a ELSE b
Max(a, b) == IF a > b THEN a ELSE b

(***************************************************************************)
(* Strings.                                                                *)
(***************************************************************************)
RECURSIVE Repeat(_, _)
\* `for _ in 0..n { out.push(c) }`
Repeat(c, n) == IF n <= 0 THEN <<>> ELSE <<c>> \o Repeat(c, n - 1)

RECURSIVE visible_chars_count(_)
\* TermString::visible_chars_count: escape sequences are not counted
visible_chars_count(text) ==
    IF text = <<>> THEN 0
    ELSE (IF Head(text) = ESC THEN 0 ELSE 1) + visible_chars_count(Tail(text))

RECURSIVE truncated(_, _)
\* TermString::truncated: the first n visible characters, every escape
\* sequence kept
truncated(text, n) ==
    IF text = <<>> THEN <<>>
    ELSE IF Head(text) = ESC THEN <<ESC>> \o truncated(Tail(text), n)
    ELSE IF n > 0 THEN <<Head(text)>> \o truncated(Tail(text), n - 1)
    ELSE truncated(Tail(text), n)

\* the digits "1", "12", "123", ... the tests write
Digits == <<"1", "2", "3", "4", "5", "6", "7", "8", "9">>
Plain(w) == SubSeq(Digits, 1, w)
Colored(w) == <<ESC>> \o Plain(w) \o <<ESC>>

\* the values a caller writes: every plain word up to MaxWidth visible
\* characters, and the widest one wrapped in escape sequences
Values == { Plain(w) : w \in 0..MaxWidth } \cup { Colored(MaxWidth) }

\* the values written to the layouts of the pool: a widest one, and a
\* narrower one wrapped in escape sequences
PoolValues == { Plain(MaxWidth), Colored(MaxWidth - 1) }

(***************************************************************************)
(* ColumnLayout.                                                           *)
(***************************************************************************)
Pos == {"Left", "Middle", "Right"}
PadChars == {"-"}

\* ColumnLayout::align
align(pos, pad_char) ==
    [lower_bound |-> 0, upper_bound |-> <<>>, pos |-> pos, pad_char |-> pad_char]

\* ColumnLayout::fixed_width
fixed_width(width, pad_char) ==
    [lower_bound |-> width, upper_bound |-> <<width>>, pos |-> "Right",
     pad_char |-> pad_char]

\* every ColumnLayout the setters can configure, within the bounds
ColumnLayouts ==
    [lower_bound : 0..MaxBound,
     upper_bound : {<<>>} \cup { <<n>> : n \in 0..MaxBound },
     pos : Pos,
     pad_char : PadChars]

adjusted_upper_bound(self, max) ==
    IF self.upper_bound = <<>> THEN max ELSE Min(self.upper_bound[1], max)

\* a lower bound that is not raised to the observed maximum
lower_bound_unclamped(self, max) == self.lower_bound

adjusted_lower_bound(self, max) == Max(self.lower_bound, max)

\* a render that never pads
pads_never(lower, count) == 0

pads_needed(lower, count) == IF lower > count THEN lower - count ELSE 0

\* a Middle alignment without the trailing pad character
middle_extra_never(pad_count) == 0

\* the trailing `if pad_count % 2 == 1 { out.push(self.pad_char) }`
middle_extra(pad_count) == IF pad_count % 2 = 1 THEN 1 ELSE 0

\* a match whose Left and Right arms are exchanged
placed_swapped(self, pads, content) ==
    LET pad_count == pads \div 2
    IN CASE self.pos = "Left"  -> Repeat(self.pad_char, pads) \o content
         [] self.pos = "Right" -> content \o Repeat(self.pad_char, pads)
         [] self.pos = "Middle" ->
               Repeat(self.pad_char, pad_count) \o content
               \o Repeat(self.pad_char, pad_count)
               \o Repeat(self.pad_char, middle_extra(pad_count))

\* the `match self.pos` of render: the pad characters around the content
placed(self, pads, content) ==
    LET pad_count == pads \div 2
    IN CASE self.pos = "Right" -> Repeat(self.pad_char, pads) \o content
         [] self.pos = "Left"  -> content \o Repeat(self.pad_char, pads)
         [] self.pos = "Middle" ->
               Repeat(self.pad_char, pad_count) \o content
               \o Repeat(self.pad_char, pad_count)
               \o Repeat(self.pad_char, middle_extra(pad_count))

\* ColumnLayout::render: what is appended to out, or the panic
ColumnLayout_render(self, min, max, value) ==
    IF min > max THEN [panic |-> TRUE, text |-> <<>>]
    ELSE
      LET count == visible_chars_count(value)
          aub   == adjusted_upper_bound(self, max)
          alb   == adjusted_lower_bound(self, max)
          trunc == IF count > aub THEN truncated(value, aub)
                                  ELSE truncated(value, count)
      IN [panic |-> FALSE, text |-> placed(self, pads_needed(alb, count), trunc)]

(***************************************************************************)
(* Column, RowLayout.                                                      *)
(***************************************************************************)
\* Column::new: min = usize::MAX, max = 0
Column_new(layout) == [layout |-> layout, min |-> UsizeMax, max |-> 0]

\* Column::render
Column_render(col, value) == ColumnLayout_render(col.layout, col.min, col.max, value)

\* a write that keeps only the width of the value written last
observe_last(col, text_len) ==
    [col EXCEPT !.min = Min(@, text_len), !.max = text_len]

\* a write that leaves the minimum of the Column alone
observe_max_only(col, text_len) == [col EXCEPT !.max = Max(@, text_len)]

\* the width bookkeeping of write_to_layout on one Column
observe(col, text_len) ==
    [col EXCEPT !.min = Min(@, text_len), !.max = Max(@, text_len)]

\* a flush that takes the newest pending value of a queue
pop_back(deque) ==
    [value |-> deque[Len(deque)], rest |-> SubSeq(deque, 1, Len(deque) - 1)]

\* VecDeque::pop_front on a queue that is not empty
pop_front(deque) == [value |-> Head(deque), rest |-> Tail(deque)]

Range(s) == { s[i] : i \in DOMAIN s }

\* a reset that forgets the minimum
RowLayout_reset_max_only(heap, row) ==
    [c \in DOMAIN heap |->
        IF c \in Range(row.columns) THEN [heap[c] EXCEPT !.max = 0] ELSE heap[c]]

\* a reset that zeroes both extrema
RowLayout_reset_zero(heap, row) ==
    [c \in DOMAIN heap |->
        IF c \in Range(row.columns)
        THEN [heap[c] EXCEPT !.min = 0, !.max = 0]
        ELSE heap[c]]

\* RowLayout::reset, on the heap of shared Column cells
RowLayout_reset(heap, row) ==
    [c \in DOMAIN heap |->
        IF c \in Range(row.columns)
        THEN [heap[c] EXCEPT !.min = UsizeMax, !.max = 0]
        ELSE heap[c]]

(***************************************************************************)
(* State.                                                                  *)
(***************************************************************************)
VARIABLES
    columns,     \* the heap of Rc<RefCell<Column>> cells: id -> Column
    templates,   \* the RowLayouts the caller has built and not yet registered
    inputs,      \* the values the caller writes
    rules,       \* Renderer.rules: sequence of [def, cols_dat]
    newline,     \* Renderer.newline
    begin,       \* Renderer.begin
    end,         \* Renderer.end
    write_logs,  \* Renderer.write_logs
    panicked,    \* a panic! / unwrap / expect has aborted the program
    op,          \* the operation that ran last
    ret,         \* what it returned (a handle, the flushed text)
    trace,       \* the cells a flush rendered, row by row, if it ran last
    batch,       \* history: the shape-matching writes since the last flush
    flushed,     \* history: batch as it was when the flush that ran last began
    matched,     \* history: whether the last write matched its layout's shape
    seen,        \* history: some batch with rows (or a table) has been flushed
    again,       \* history: seen as it was when the flush that ran last began
    call,        \* a direct call: its arguments, and the output of a render
    table,       \* the TableLayout that owns the Renderer, if one does
    other        \* a second Renderer of the same caller, if there is one

vars == <<columns, templates, inputs, rules, newline, begin, end, write_logs, panicked,
          op, ret, trace, batch, flushed, matched, seen, again, call, table,
          other>>

\* the Renderer and the cells it can reach, as one value
Self == [columns |-> columns, rules |-> rules, write_logs |-> write_logs,
         newline |-> newline]

NoCall == [state |-> "none"]

NoTable == [state |-> "none"]

NoRenderer == [state |-> "none"]

(***************************************************************************)
(* Renderer.                                                               *)
(***************************************************************************)
\* a registration that numbers the layout after pushing it
register_layout_counts_pushed(self, layout) ==
    [self |-> [self EXCEPT !.rules =
                  Append(@, [def |-> layout,
                             cols_dat |-> [i \in 1..Len(layout.columns) |-> <<>>]])],
     new_id |-> Len(self.rules) + 1]

\* Renderer::register_layout: the new state and the handle
register_layout(self, layout) ==
    [self |-> [self EXCEPT !.rules =
                  Append(@, [def |-> layout,
                             cols_dat |-> [i \in 1..Len(layout.columns) |-> <<>>]])],
     new_id |-> Len(self.rules)]

RECURSIVE write_columns(_, _, _, _)
\* the loop of write_to_layout over cols.zip(col_dat.zip(dat)), from position i
write_columns(self, idx, data, i) ==
    LET def == self.rules[idx].def
        n   == Min(Len(def.columns), Min(Len(self.rules[idx].cols_dat), Len(data)))
    IN IF i > n THEN self
       ELSE LET c == def.columns[i]
                text_len == visible_chars_count(data[i])
                next == [self EXCEPT
                           !.columns[c] = observe(@, text_len),
                           !.rules[idx].cols_dat[i] = Append(@, data[i])]
            IN write_columns(next, idx, data, i + 1)

\* a guard that only looks the handle up
write_accepts_any_shape(self, layout, data) == layout + 1 \in DOMAIN self.rules

\* the guard of write_to_layout: the handle is registered and the dimensions
\* of the definition, the queues and the data agree
write_accepts(self, layout, data) ==
    /\ layout + 1 \in DOMAIN self.rules
    /\ Len(self.rules[layout + 1].def.columns) = Len(data)
    /\ Len(self.rules[layout + 1].cols_dat) = Len(data)

\* Renderer::write_to_layout
write_to_layout(self, layout, data) ==
    IF write_accepts(self, layout, data)
    THEN LET wrote == write_columns(self, layout + 1, data, 1)
         IN [wrote EXCEPT !.write_logs = Append(@, layout)]
    ELSE self

RECURSIVE flush_row(_, _, _, _, _)
\* the inner loop of flush over cols_dat.iter_mut().zip(def.columns.iter()),
\* from position i: run is [self, buf, cells, panic]
flush_row(run, idx, i, once, cells) ==
    LET self == run.self
        def  == self.rules[idx].def
        n    == Min(Len(self.rules[idx].cols_dat), Len(def.columns))
    IN IF i > n THEN [run EXCEPT !.cells = cells]
       ELSE LET buf1  == IF once THEN run.buf \o def.sep ELSE run.buf
                deque == self.rules[idx].cols_dat[i]
            IN IF deque = <<>>
               THEN [run EXCEPT !.buf = buf1, !.cells = cells, !.panic = TRUE]
               ELSE
                 LET col == self.columns[def.columns[i]]
                     front == pop_front(deque)
                     r   == Column_render(col, front.value)
                     popped == [self EXCEPT !.rules[idx].cols_dat[i] = front.rest]
                     cell == [column |-> def.columns[i], value |-> front.value,
                              min |-> col.min, max |-> col.max, text |-> r.text]
                 IN IF r.panic
                    THEN [run EXCEPT !.self = popped, !.buf = buf1,
                                     !.cells = cells, !.panic = TRUE]
                    ELSE flush_row([run EXCEPT !.self = popped,
                                               !.buf = buf1 \o r.text],
                                   idx, i + 1, TRUE, Append(cells, cell))

RECURSIVE flush_rows(_, _)
\* the `while let Some(rule_idx) = self.write_logs.pop_front()` loop of flush
flush_rows(run, not_first_line) ==
    IF run.self.write_logs = <<>> THEN run
    ELSE LET rule_idx == Head(run.self.write_logs)
             popped == [run.self EXCEPT !.write_logs = Tail(@)]
             buf1 == IF not_first_line THEN run.buf \o popped.newline ELSE run.buf
         IN IF rule_idx + 1 \notin DOMAIN popped.rules
            THEN [run EXCEPT !.self = popped, !.buf = buf1, !.panic = TRUE]
            ELSE
              LET def == popped.rules[rule_idx + 1].def
                  row == flush_row([run EXCEPT !.self = popped,
                                               !.buf = buf1 \o def.start],
                                   rule_idx + 1, 1, FALSE, <<>>)
                  done == [row EXCEPT
                             !.trace = Append(@, [layout |-> rule_idx,
                                                  cells |-> row.cells])]
              IN IF row.panic THEN done
                 ELSE flush_rows([done EXCEPT !.buf = @ \o def.end], TRUE)

\* a flush that resets nothing
reset_rows_none(heap, rows, i) == heap

RECURSIVE reset_rows(_, _, _)
\* `for (row, _) in self.rules.iter_mut() { row.reset() }`, from entry i
reset_rows(heap, rows, i) ==
    IF i > Len(rows) THEN heap
    ELSE reset_rows(RowLayout_reset(heap, rows[i].def), rows, i + 1)

\* a flush that ends every text with rows with the newline
flush_newline_last(self) ==
    LET run == flush_rows([self |-> self, buf |-> <<>>, cells |-> <<>>,
                           trace |-> <<>>, panic |-> FALSE], FALSE)
    IN IF run.panic THEN run
       ELSE [run EXCEPT !.self.columns = reset_rows(@, run.self.rules, 1),
                        !.buf = IF @ = <<>> THEN @ ELSE @ \o self.newline]

\* Renderer::flush: [self, buf, trace, panic]
flush(self) ==
    LET run == flush_rows([self |-> self, buf |-> <<>>, cells |-> <<>>,
                           trace |-> <<>>, panic |-> FALSE], FALSE)
    IN IF run.panic THEN run
       ELSE [run EXCEPT !.self.columns = reset_rows(@, run.self.rules, 1)]

(***************************************************************************)
(* The caller's RowLayouts.                                                *)
(***************************************************************************)
\* RowLayout::new followed by the set_* and push_* calls
RowLayout(start, end_token, sep, cols) ==
    [start |-> start, end |-> end_token, sep |-> sep, columns |-> cols]

\* the shared Column and the ColumnLayouts of tests::test_multi_layout,
\* at the widths of this model
PoolColumns ==
    << Column_new(align("Right", "0")),
       Column_new(align("Left", "-")),
       Column_new(fixed_width(PoolFixedWidth, "-")) >>

\* row1 and row2 share Column 1, as in tests::test_multi_layout
PoolLayouts ==
    { RowLayout(<<"[">>, <<"]">>, <<",">>, <<1, 2>>),
      RowLayout(<<>>, <<>>, <<"|">>, <<3, 1>>) }

\* the widest RowLayout the caller has built, registered or not
Widest(built, registered) ==
    LET lens == { Len(l.columns) : l \in built }
                \cup { Len(registered[i].def.columns) : i \in DOMAIN registered }
    IN CHOOSE n \in lens \cup {0} : \A m \in lens : m <= n

\* the rows a caller passes to write_to_layout: every row up to the width of
\* the widest layout, and rows of one value more
Rows(values, widest) ==
    UNION { [1..n -> values] : n \in 0..widest }
    \cup { [j \in 1..(widest + 1) |-> v] : v \in values }

(***************************************************************************)
(* Initial states.                                                         *)
(***************************************************************************)
\* Renderer::new, no operation run yet
InitRenderer ==
    /\ rules = <<>>
    /\ newline = <<"\n">>
    /\ begin = <<>>
    /\ end = <<>>
    /\ write_logs = <<>>
    /\ panicked = FALSE
    /\ op = "new"
    /\ ret = <<>>
    /\ trace = <<>>
    /\ batch = <<>>
    /\ flushed = <<>>
    /\ matched = FALSE
    /\ seen = FALSE
    /\ again = FALSE

\* one Renderer, the pool of Columns and layouts
Init ==
    /\ InitRenderer
    /\ columns = PoolColumns
    /\ templates = PoolLayouts
    /\ inputs = PoolValues
    /\ call = NoCall
    /\ table = NoTable
    /\ other = NoRenderer

\* one Renderer, one Column of any configuration, a one-column layout
InitColumn ==
    /\ InitRenderer
    /\ columns \in { <<Column_new(l)>> : l \in ColumnLayouts }
    /\ templates = { RowLayout(<<>>, <<>>, <<>>, <<1>>) }
    /\ inputs = Values
    /\ call = NoCall
    /\ table = NoTable
    /\ other = NoRenderer

\* a direct call of ColumnLayout::render, as tests::test_column_rendering makes
InitRender ==
    /\ InitRenderer
    /\ columns = <<>>
    /\ templates = {}
    /\ inputs = Values
    /\ call \in [state : {"ready"}, self : ColumnLayouts,
                 min : 0..MaxExtremum, max : 0..MaxExtremum,
                 value : Values, out : {<<>>}, panic : {FALSE}]
    /\ table = NoTable
    /\ other = NoRenderer

(***************************************************************************)
(* Actions.                                                                *)
(***************************************************************************)
RegisterLayout ==
    /\ ~panicked
    /\ \E layout \in templates :
          LET r == register_layout(Self, layout)
          IN /\ rules' = r.self.rules
             /\ templates' = templates \ {layout}
             /\ op' = "register_layout"
             /\ ret' = r.new_id
    /\ matched' = FALSE
    /\ trace' = <<>>
    /\ flushed' = <<>>
    /\ again' = FALSE
    /\ UNCHANGED <<columns, inputs, newline, begin, end, write_logs,
                   panicked, batch, seen, call, table, other>>

Write(limit) ==
    /\ ~panicked
    /\ Len(write_logs) < limit
    /\ \E layout \in 0..Len(rules), data \in Rows(inputs, Widest(templates, rules)) :
          LET next == write_to_layout(Self, layout, data)
              fits == /\ layout < Len(rules)
                      /\ Len(data) = Len(rules[layout + 1].def.columns)
          IN /\ columns' = next.columns
             /\ rules' = next.rules
             /\ write_logs' = next.write_logs
             /\ matched' = fits
             /\ batch' = IF fits
                         THEN Append(batch, [layout |-> layout, data |-> data])
                         ELSE batch
    /\ op' = "write_to_layout"
    /\ ret' = <<>>
    /\ trace' = <<>>
    /\ flushed' = <<>>
    /\ again' = FALSE
    /\ UNCHANGED <<templates, inputs, newline, begin, end, panicked, seen, call,
                   table, other>>

Flush ==
    /\ ~panicked
    /\ LET run == flush(Self)
       IN /\ columns' = run.self.columns
          /\ rules' = run.self.rules
          /\ write_logs' = run.self.write_logs
          /\ panicked' = run.panic
          /\ ret' = run.buf
          /\ trace' = run.trace
    /\ op' = "flush"
    /\ flushed' = batch
    /\ batch' = <<>>
    /\ matched' = FALSE
    /\ seen' = (seen \/ batch # <<>>)
    /\ again' = seen
    /\ UNCHANGED <<templates, inputs, newline, begin, end, call, table, other>>

RenderCall ==
    /\ call.state = "ready"
    /\ LET r == ColumnLayout_render(call.self, call.min, call.max, call.value)
       IN call' = [call EXCEPT !.state = "done", !.out = @ \o r.text,
                               !.panic = r.panic]
    /\ UNCHANGED <<columns, templates, inputs, rules, newline, begin, end,
                   write_logs, panicked, op, ret, trace, batch, flushed, matched,
                   seen, again, table, other>>

WriteToLayout == Write(MaxPending)

WriteColumn == Write(MaxBatch)

Next == RegisterLayout \/ WriteToLayout \/ Flush

NextColumn == RegisterLayout \/ WriteColumn \/ Flush

NextRender == RenderCall

Spec == Init /\ [][Next]_vars

SpecColumn == InitColumn /\ [][NextColumn]_vars

SpecRender == InitRender /\ [][NextRender]_vars

(***************************************************************************)
(* A caller that also renders through a Column cell it holds.              *)
(***************************************************************************)
\* Column::render called by the owner of the Rc, outside any flush
ColumnRender ==
    /\ ~panicked
    /\ \E c \in DOMAIN columns, value \in inputs :
          LET r == Column_render(columns[c], value)
          IN /\ ret' = r.text
             /\ panicked' = r.panic
    /\ op' = "render"
    /\ matched' = FALSE
    /\ trace' = <<>>
    /\ flushed' = <<>>
    /\ again' = FALSE
    /\ UNCHANGED <<columns, templates, inputs, rules, newline, begin, end,
                   write_logs, batch, seen, call, table, other>>

NextCell == RegisterLayout \/ WriteColumn \/ Flush \/ ColumnRender

SpecCell == InitColumn /\ [][NextCell]_vars

(***************************************************************************)
(* A caller that also configures the framing strings of the Renderer.      *)
(***************************************************************************)
\* the strings a caller hands to set_newline, and to set_begin and set_end
Newlines == { <<"\n">>, <<"\r", "\n">> }
Begins == { <<>>, <<"<">> }
Ends == { <<>>, <<">">> }

\* the row of tests::test_rows_rendering: start and end token, a separator
\* and three Columns of its own
FrameLayouts == { RowLayout(<<"[">>, <<"]">>, <<",">>, <<1, 2, 3>>) }

\* one Renderer and the row of tests::test_rows_rendering
InitFrame ==
    /\ InitRenderer
    /\ columns = PoolColumns
    /\ templates = FrameLayouts
    /\ inputs = PoolValues
    /\ call = NoCall
    /\ table = NoTable
    /\ other = NoRenderer

\* what a setter leaves alone
SetterFrame ==
    /\ matched' = FALSE
    /\ ret' = <<>>
    /\ trace' = <<>>
    /\ flushed' = <<>>
    /\ again' = FALSE
    /\ UNCHANGED <<columns, templates, inputs, rules, write_logs, panicked,
                   batch, seen, call, table, other>>

\* Renderer::set_newline
SetNewline ==
    /\ ~panicked
    /\ \E s \in Newlines : newline' = s
    /\ op' = "set_newline"
    /\ SetterFrame
    /\ UNCHANGED <<begin, end>>

\* Renderer::set_begin
SetBegin ==
    /\ ~panicked
    /\ \E s \in Begins : begin' = s
    /\ op' = "set_begin"
    /\ SetterFrame
    /\ UNCHANGED <<newline, end>>

\* Renderer::set_end
SetEnd ==
    /\ ~panicked
    /\ \E s \in Ends : end' = s
    /\ op' = "set_end"
    /\ SetterFrame
    /\ UNCHANGED <<newline, begin>>

NextFrame ==
    RegisterLayout \/ WriteColumn \/ Flush \/ SetNewline \/ SetBegin \/ SetEnd

SpecFrame == InitFrame /\ [][NextFrame]_vars

(***************************************************************************)
(* TableLayout: one layout, a title per column, rows from a TableSource.   *)
(***************************************************************************)
\* the placeholder of append_data
NA == <<"N", "/", "A">>

\* IdFormatter, and a TextFormatter of the caller that appends a mark
TextFormatters == {"IdFormatter", "Starred"}

\* TextFormatter::format_text
format_text(formatter, source) ==
    IF formatter = "IdFormatter" THEN source ELSE source \o <<"*">>

\* Title::new
Title_new(title, id) == [title |-> title, id |-> id, formatter |-> "IdFormatter"]

\* Title::new_fmt
Title_new_fmt(title, id, formatter) ==
    [title |-> title, id |-> id, formatter |-> formatter]

\* the column ids of the table, and the values a TableSource holds for them
ColumnIds == {"a", "b"}
TableValues == { Plain(MaxWidth) }

\* every TableSource: a value or None for each column id
TableSources == [ColumnIds -> {<<>>} \cup { <<v>> : v \in TableValues }]

\* TableSource::value_for_column
value_for_column(source, column) == source[column]

\* TableLayout::new: the TableLayout and the Renderer and Column cells it owns
TableLayout_new(separator, print_header, layout) ==
    LET heap == [j \in DOMAIN layout |-> Column_new(layout[j][2])]
        row_layout == RowLayout(<<>>, <<>>, separator, [j \in DOMAIN layout |-> j])
        titles == [j \in DOMAIN layout |-> layout[j][1].title]
        renderer == [columns |-> heap, rules |-> <<>>, write_logs |-> <<>>,
                     newline |-> <<"\n">>]
        reg == register_layout(renderer, row_layout)
    IN [self |-> [state |-> "built",
                  permutation |-> [j \in DOMAIN layout |-> layout[j][1]],
                  row_id |-> reg.new_id,
                  print_header |-> print_header,
                  titles |-> titles],
        renderer |-> IF print_header
                     THEN write_to_layout(reg.self, reg.new_id, titles)
                     ELSE reg.self]

\* an append_data whose placeholder bypasses the formatter
append_dat_bare_placeholder(self, source) ==
    [j \in DOMAIN self.permutation |->
        LET title == self.permutation[j]
            value == value_for_column(source, title.id)
        IN IF value = <<>> THEN NA ELSE format_text(title.formatter, value[1])]

\* the loop of append_data: dat
append_dat(self, source) ==
    [j \in DOMAIN self.permutation |->
        LET title == self.permutation[j]
            found == value_for_column(source, title.id)
            value == IF found = <<>> THEN NA ELSE found[1]
        IN format_text(title.formatter, value)]

\* TableLayout::append_data: the Renderer afterwards
TableLayout_append_data(self, renderer, source) ==
    write_to_layout(renderer, self.row_id, append_dat(self, source))

\* a flush that does not enqueue the titles again
TableLayout_flush_once(self, renderer) == flush(renderer)

\* TableLayout::flush: the run of the inner flush, the titles enqueued again
TableLayout_flush(self, renderer) ==
    LET run == flush(renderer)
    IN IF run.panic \/ ~self.print_header THEN run
       ELSE [run EXCEPT !.self = write_to_layout(@, self.row_id, self.titles)]

\* a table of two columns: a wide title over an unbounded Left column, a
\* narrow one over a Right column whose formatter the caller chooses
InitTable ==
    /\ \E print_header \in BOOLEAN, formatter \in TextFormatters :
          LET built == TableLayout_new(<<"|">>, print_header,
                          << <<Title_new(<<"N", "A", "M", "E", "S">>, "a"),
                               align("Left", "-")>>,
                             <<Title_new_fmt(<<"#">>, "b", formatter),
                               align("Right", "-")>> >>)
          IN /\ table = built.self
             /\ other = NoRenderer
             /\ columns = built.renderer.columns
             /\ rules = built.renderer.rules
             /\ write_logs = built.renderer.write_logs
             /\ newline = built.renderer.newline
    /\ begin = <<>>
    /\ end = <<>>
    /\ templates = {}
    /\ inputs = TableValues
    /\ panicked = FALSE
    /\ op = "new"
    /\ ret = <<>>
    /\ trace = <<>>
    /\ batch = <<>>
    /\ flushed = <<>>
    /\ matched = FALSE
    /\ seen = FALSE
    /\ again = FALSE
    /\ call = NoCall

\* TableLayout::append_data; batch records the sources appended
AppendData ==
    /\ ~panicked
    /\ Len(write_logs) <= MaxBatch
    /\ \E source \in TableSources :
          LET next == TableLayout_append_data(table, Self, source)
          IN /\ columns' = next.columns
             /\ rules' = next.rules
             /\ write_logs' = next.write_logs
             /\ call' = [state |-> "append_data", source |-> source]
             /\ batch' = Append(batch, source)
    /\ op' = "append_data"
    /\ ret' = <<>>
    /\ matched' = FALSE
    /\ trace' = <<>>
    /\ flushed' = <<>>
    /\ again' = FALSE
    /\ UNCHANGED <<templates, inputs, newline, begin, end, panicked, seen, table,
                   other>>

\* TableLayout::flush
TableFlush ==
    /\ ~panicked
    /\ LET run == TableLayout_flush(table, Self)
       IN /\ columns' = run.self.columns
          /\ rules' = run.self.rules
          /\ write_logs' = run.self.write_logs
          /\ panicked' = run.panic
          /\ ret' = run.buf
          /\ trace' = run.trace
    /\ op' = "table_flush"
    /\ flushed' = batch
    /\ batch' = <<>>
    /\ matched' = FALSE
    /\ seen' = TRUE
    /\ again' = seen
    /\ call' = NoCall
    /\ UNCHANGED <<templates, inputs, newline, begin, end, table, other>>

NextTable == AppendData \/ TableFlush

SpecTable == InitTable /\ [][NextTable]_vars

(***************************************************************************)
(* RowLayouts that allocate their own Column cells.                        *)
(***************************************************************************)
\* a with_cols that creates a Column per position
with_cols_cell_each(heap, column, sep, n) ==
    [heap |-> heap \o [j \in 1..n |-> Column_new(column)],
     row |-> RowLayout(<<>>, <<>>, sep, [j \in 1..n |-> Len(heap) + j])]

\* RowLayout::with_cols::<N>: `vec![Column::new(column); N]` creates one cell
\* and clones the Rc for every position
with_cols(heap, column, sep, n) ==
    [heap |-> Append(heap, Column_new(column)),
     row |-> RowLayout(<<>>, <<>>, sep, [j \in 1..n |-> Len(heap) + 1])]

\* RowLayout::push_column_layout
push_column_layout(heap, row, column) ==
    [heap |-> Append(heap, Column_new(column)),
     row |-> [row EXCEPT !.columns = Append(@, Len(heap) + 1)]]

\* RowLayout::extend_column_layouts
extend_column_layouts(heap, row, layouts) ==
    [heap |-> heap \o [j \in DOMAIN layouts |-> Column_new(layouts[j])],
     row |-> [row EXCEPT !.columns =
                 @ \o [j \in DOMAIN layouts |-> Len(heap) + j]]]

\* the row of with_cols::<SharedCols>
SharedRow == with_cols(<<>>, align("Left", "-"), <<",">>, SharedCols)

\* beside it, a row of as many columns from extend_column_layouts and
\* push_column_layout
OwnRow ==
    LET extended == extend_column_layouts(
                        SharedRow.heap, RowLayout(<<>>, <<>>, <<"|">>, <<>>),
                        [j \in 1..(SharedCols - 1) |-> align("Left", "-")])
    IN push_column_layout(extended.heap, extended.row, align("Left", "-"))

\* one Renderer and the two rows
InitShared ==
    /\ InitRenderer
    /\ columns = OwnRow.heap
    /\ templates = {SharedRow.row, OwnRow.row}
    /\ inputs = PoolValues
    /\ call = NoCall
    /\ table = NoTable
    /\ other = NoRenderer

SpecShared == InitShared /\ [][NextColumn]_vars

(***************************************************************************)
(* Two Renderers of one caller, a RowLayout and its clone.                 *)
(***************************************************************************)
\* a clone that copies the Column cells too
RowLayout_clone_cells(heap, row) ==
    [heap |-> heap \o [j \in DOMAIN row.columns |-> heap[row.columns[j]]],
     row |-> [row EXCEPT !.columns = [j \in DOMAIN @ |-> Len(heap) + j]]]

\* #[derive(Clone)] of RowLayout: the strings are copied, every Rc of columns
\* is cloned and names the cell it named
RowLayout_clone(heap, row) == [heap |-> heap, row |-> row]

\* the second Renderer and the cells it can reach, as one value
OtherSelf == [columns |-> columns, rules |-> other.rules,
              write_logs |-> other.write_logs, newline |-> other.newline]

\* two Renderers; the caller holds a one-column row for the first and its
\* clone for the second
InitTwo ==
    LET row == RowLayout(<<"[">>, <<"]">>, <<",">>, <<1>>)
        cloned == RowLayout_clone(<<Column_new(align("Left", "-"))>>, row)
    IN /\ InitRenderer
       /\ columns = cloned.heap
       /\ templates = {row}
       /\ inputs = PoolValues
       /\ call = NoCall
       /\ table = NoTable
       /\ other = [state |-> "new", templates |-> {cloned.row}, rules |-> <<>>,
                   write_logs |-> <<>>, newline |-> <<"\n">>]

\* what an operation of the second Renderer leaves alone
OtherFrame ==
    /\ matched' = FALSE
    /\ trace' = <<>>
    /\ flushed' = <<>>
    /\ again' = FALSE
    /\ UNCHANGED <<templates, inputs, rules, newline, begin, end, write_logs,
                   batch, seen, call, table>>

\* Renderer::register_layout on the second Renderer
RegisterOther ==
    /\ ~panicked
    /\ \E layout \in other.templates :
          LET r == register_layout(OtherSelf, layout)
          IN /\ other' = [other EXCEPT !.rules = r.self.rules,
                                       !.templates = @ \ {layout}]
             /\ ret' = r.new_id
    /\ op' = "register_layout_other"
    /\ OtherFrame
    /\ UNCHANGED <<columns, panicked>>

\* Renderer::write_to_layout on the second Renderer
WriteOther ==
    /\ ~panicked
    /\ Len(other.write_logs) < MaxBatch
    /\ \E layout \in 0..Len(other.rules),
          data \in Rows(inputs, Widest(other.templates, other.rules)) :
          LET next == write_to_layout(OtherSelf, layout, data)
          IN /\ columns' = next.columns
             /\ other' = [other EXCEPT !.rules = next.rules,
                                       !.write_logs = next.write_logs]
    /\ op' = "write_to_layout_other"
    /\ ret' = <<>>
    /\ OtherFrame
    /\ UNCHANGED panicked

\* Renderer::flush on the second Renderer
FlushOther ==
    /\ ~panicked
    /\ LET run == flush(OtherSelf)
       IN /\ columns' = run.self.columns
          /\ other' = [other EXCEPT !.rules = run.self.rules,
                                    !.write_logs = run.self.write_logs]
          /\ panicked' = run.panic
          /\ ret' = run.buf
    /\ op' = "flush_other"
    /\ OtherFrame

NextTwo ==
    \/ RegisterLayout \/ WriteColumn \/ Flush
    \/ RegisterOther \/ WriteOther \/ FlushOther

SpecTwo == InitTwo /\ [][NextTwo]_vars

(***************************************************************************)
(* Properties.                                                             *)
(***************************************************************************)
RECURSIVE Join(_, _)
\* the strings of a sequence, sep between each two
Join(strings, sep) ==
    IF strings = <<>> THEN <<>>
    ELSE IF Len(strings) = 1 THEN strings[1]
    ELSE strings[1] \o sep \o Join(Tail(strings), sep)

\* the definition of the layout a handle names
Def(handle) == rules[handle + 1].def

\* the Column behind position j of the layout a handle names
ColumnAt(handle, j) == Def(handle).columns[j]

\* row i of the batch just flushed, as its layout frames it, each value
\* rendered under the extrema the flush used for that cell
WrittenRow(i) ==
    LET w == flushed[i]
        cell(j) == ColumnLayout_render(columns[ColumnAt(w.layout, j)].layout,
                                       trace[i].cells[j].min,
                                       trace[i].cells[j].max,
                                       w.data[j]).text
    IN Def(w.layout).start
       \o Join([j \in DOMAIN w.data |-> cell(j)], Def(w.layout).sep)
       \o Def(w.layout).end

\* C1: the rows of a flush output are the shape-matching writes made since
\* the previous flush, one for one and in the order they were written,
\* whatever the interleaving of layouts; each row holds its own values.
RowsInWriteOrder ==
    op = "flush" =>
       /\ ~panicked
       /\ Len(trace) = Len(flushed)
       /\ \A i \in DOMAIN flushed :
             /\ trace[i].layout = flushed[i].layout
             /\ Len(trace[i].cells) = Len(flushed[i].data)
             /\ \A j \in DOMAIN flushed[i].data :
                   trace[i].cells[j].value = flushed[i].data[j]
       /\ ret = Join([i \in DOMAIN flushed |-> WrittenRow(i)], newline)

\* C1 happens: rows A1, B1, A2 of two layouts were flushed, A1 and A2 differ
InterleavedFlush ==
    /\ op = "flush"
    /\ Len(flushed) = 3
    /\ flushed[1].layout = flushed[3].layout
    /\ flushed[1].layout # flushed[2].layout
    /\ flushed[1].data # flushed[3].data

\* the positions (row k of the batch, position p) whose value was written to
\* Column c
WritesTo(c) ==
    { <<k, p>> \in (DOMAIN flushed) \X (1..Len(columns) + 1) :
         /\ p \in DOMAIN flushed[k].data
         /\ ColumnAt(flushed[k].layout, p) = c }

\* the visible width of a string, counted character by character
Width(text) == Cardinality({ n \in DOMAIN text : text[n] # ESC })

\* the visible widths written to Column c in the batch just flushed
WidthsOf(c) == { Width(flushed[kp[1]].data[kp[2]]) : kp \in WritesTo(c) }

BatchMax(c) == CHOOSE m \in WidthsOf(c) : \A n \in WidthsOf(c) : n <= m
BatchMin(c) == CHOOSE m \in WidthsOf(c) : \A n \in WidthsOf(c) : m <= n

\* C2: every cell is rendered under its Column's min and max over the whole
\* batch: over every value written since the last flush to any position of
\* any layout that references the Column
CellsUseBatchExtrema ==
    op = "flush" =>
       \A i \in DOMAIN flushed : \A j \in DOMAIN flushed[i].data :
          LET c == ColumnAt(flushed[i].layout, j)
          IN /\ i \in DOMAIN trace
             /\ j \in DOMAIN trace[i].cells
             /\ trace[i].cells[j].max = BatchMax(c)
             /\ trace[i].cells[j].min = BatchMin(c)
             /\ trace[i].cells[j].text =
                  ColumnLayout_render(columns[c].layout, BatchMin(c), BatchMax(c),
                                      flushed[i].data[j]).text

\* C2 happens: a row was rendered under the width of a wider value that was
\* written after it, to another layout sharing the Column
LaterWriteWidens ==
    /\ op = "flush"
    /\ ~panicked
    /\ \E i, k \in DOMAIN flushed : \E j \in DOMAIN flushed[i].data :
       \E p \in DOMAIN flushed[k].data :
          /\ i < k
          /\ flushed[i].layout # flushed[k].layout
          /\ ColumnAt(flushed[i].layout, j) = ColumnAt(flushed[k].layout, p)
          /\ visible_chars_count(flushed[i].data[j])
               < visible_chars_count(flushed[k].data[p])
          /\ trace[i].cells[j].max = visible_chars_count(flushed[k].data[p])

\* C3: a write whose value count differs from the column count of its
\* layout, or whose handle is not registered, changes nothing of the
\* Renderer: no queue, no Column, no entry of the write log
DroppedWriteChangesNothing ==
    [][ (op' = "write_to_layout" /\ ~matched')
           => UNCHANGED <<columns, rules, write_logs, newline, begin, end>> ]_vars

\* C3 happens: a write was dropped while rows were pending
DroppedWhilePending ==
    /\ op = "write_to_layout"
    /\ ~matched
    /\ write_logs # <<>>
    /\ Len(rules) = 2

\* C4: when a flush has returned the write log is empty, every queue of every
\* registered layout is empty and every Column of every registered layout is
\* back at min = usize::MAX, max = 0
FlushDrainsAndResets ==
    (op = "flush" /\ ~panicked) =>
       /\ write_logs = <<>>
       /\ \A h \in DOMAIN rules :
             /\ \A q \in DOMAIN rules[h].cols_dat : rules[h].cols_dat[q] = <<>>
             /\ \A c \in Range(rules[h].def.columns) :
                   columns[c].min = UsizeMax /\ columns[c].max = 0

\* C4 happens: rows were flushed while a registered layout had received none
FlushWithIdleLayout ==
    /\ op = "flush"
    /\ ~panicked
    /\ flushed # <<>>
    /\ \E h \in DOMAIN rules : \A i \in DOMAIN flushed : flushed[i].layout # h - 1

RECURSIVE Registered(_, _, _)
\* a Renderer after register_layout of each definition, from entry i
Registered(self, defs, i) ==
    IF i > Len(defs) THEN self
    ELSE Registered(register_layout(self, defs[i]).self, defs, i + 1)

RECURSIVE Written(_, _, _)
\* a Renderer after write_to_layout of each row, from row i
Written(self, rows, i) ==
    IF i > Len(rows) THEN self
    ELSE Written(write_to_layout(self, rows[i].layout, rows[i].data), rows, i + 1)

\* a new Renderer over Columns that were never written, with the newline and
\* the layouts of this Renderer, registered in the same order
Fresh ==
    Registered([columns |-> [c \in DOMAIN columns |-> Column_new(columns[c].layout)],
                rules |-> <<>>, write_logs |-> <<>>, newline |-> newline],
               [h \in DOMAIN rules |-> rules[h].def], 1)

\* C5: the text of a flush is the text a fresh Renderer with the same layouts
\* returns for the batch, whatever was written and flushed before
FlushAsIfFresh ==
    op = "flush" => ret = flush(Written(Fresh, flushed, 1)).buf

\* C5 happens: a batch of narrow values only was flushed after an earlier
\* batch had been flushed
NarrowBatchAfterFlush ==
    /\ op = "flush"
    /\ again
    /\ flushed # <<>>
    /\ \A i \in DOMAIN flushed : \A j \in DOMAIN flushed[i].data :
          visible_chars_count(flushed[i].data[j]) < MaxWidth
    /\ \E i \in DOMAIN trace : \E j \in DOMAIN trace[i].cells :
          /\ columns[trace[i].cells[j].column].layout.upper_bound = <<>>
          /\ visible_chars_count(trace[i].cells[j].text) < MaxWidth

\* C6: a flush with an empty write log returns the empty string, does not
\* panic and leaves the Renderer and its Columns as they were
EmptyFlushChangesNothing ==
    [][ (op' = "flush" /\ write_logs = <<>>)
           => /\ ret' = <<>>
              /\ ~panicked'
              /\ UNCHANGED <<columns, rules, write_logs, newline, begin, end>> ]_vars

\* C6 happens: a flush with nothing to write, after an earlier flush of rows
EmptyFlushAfterFlush ==
    /\ op = "flush"
    /\ flushed = <<>>
    /\ ret = <<>>
    /\ again
    /\ rules # <<>>

\* what is left of a rendered cell without its pad characters (no value
\* holds a pad character)
NonPad(text, pad_char) == SelectSeq(text, LAMBDA ch : ch # pad_char)

\* the cells of the batch just flushed: <<row, position>>
Cells == { <<i, j>> \in (DOMAIN trace) \X (1..Len(columns) + 1) :
              j \in DOMAIN trace[i].cells }

LayoutOf(ij) == columns[trace[ij[1]].cells[ij[2]].column].layout
CellOf(ij) == trace[ij[1]].cells[ij[2]]

\* C7: a cell of a fixed_width(w) Column is exactly w visible characters
\* wide in every batch: a wider value is cut to w characters and gets no pad
\* character, a narrower one is padded to w
FixedWidthCellsAreExact ==
    op = "flush" =>
       \A ij \in Cells :
          LET L == LayoutOf(ij)
              w == L.lower_bound
          IN L = fixed_width(w, L.pad_char) =>
                /\ Width(CellOf(ij).text) = w
                /\ Width(CellOf(ij).value) > w =>
                      CellOf(ij).text = truncated(CellOf(ij).value, w)

\* C8 as stated: a cell of a Column without upper bound is as wide as the
\* widest value of the batch and holds its whole value, for every alignment
\* and every lower_bound
UnboundedCellsHaveBatchWidth ==
    op = "flush" =>
       \A ij \in Cells :
          LayoutOf(ij).upper_bound = <<>> =>
             /\ Width(CellOf(ij).text) = BatchMax(CellOf(ij).column)
             /\ NonPad(CellOf(ij).text, LayoutOf(ij).pad_char) = CellOf(ij).value

\* C8, amended: a cell of a Column without upper bound holds its whole value;
\* under Left and Right alignment it is as wide as the larger of lower_bound
\* and the widest value of the batch
UnboundedCellsWidth ==
    op = "flush" =>
       \A ij \in Cells :
          LayoutOf(ij).upper_bound = <<>> =>
             /\ NonPad(CellOf(ij).text, LayoutOf(ij).pad_char) = CellOf(ij).value
             /\ LayoutOf(ij).pos \in {"Left", "Right"} =>
                   Width(CellOf(ij).text)
                     = Max(LayoutOf(ij).lower_bound, BatchMax(CellOf(ij).column))

\* C8 happens: a narrow value of a two-row batch was padded, in a Left or
\* Right Column without upper bound whose lower_bound exceeds the batch
UnboundedCellBelowLowerBound ==
    /\ op = "flush"
    /\ Len(flushed) = 2
    /\ \E ij \in Cells :
          /\ LayoutOf(ij).upper_bound = <<>>
          /\ LayoutOf(ij).pos \in {"Left", "Right"}
          /\ Width(CellOf(ij).value) < BatchMax(CellOf(ij).column)
          /\ BatchMax(CellOf(ij).column) < LayoutOf(ij).lower_bound
          /\ Width(CellOf(ij).text) = LayoutOf(ij).lower_bound

\* a Left or Right render call that returned
SideCallDone ==
    /\ call.state = "done"
    /\ ~call.panic
    /\ call.self.pos \in {"Left", "Right"}

\* the pad characters of a Left or Right cell: n of them, on the side the
\* alignment names, around what the cell holds besides
SidePads(n) ==
    LET content == NonPad(call.out, call.self.pad_char)
        pads == [k \in 1..n |-> call.self.pad_char]
    IN call.out = IF call.self.pos = "Right" THEN pads \o content
                                               ELSE content \o pads

MiddlePadsParity ==
    (call.state = "done" /\ ~call.panic /\ call.self.pos = "Middle") =>
       LET needed == Max(0, Max(call.self.lower_bound, call.max) - Width(call.value))
           half == needed \div 2
           extra == IF half % 2 = 1 THEN 1 ELSE 0
           content == NonPad(call.out, call.self.pad_char)
       IN /\ call.out = [k \in 1..half |-> call.self.pad_char] \o content
                        \o [k \in 1..(half + extra) |-> call.self.pad_char]
          /\ Len(call.out) - Len(content) = 2 * half + (half % 2)

\* C10 happens: a Middle call whose half count is odd emitted the extra pad
MiddleOddHalf ==
    /\ call.state = "done"
    /\ ~call.panic
    /\ call.self.pos = "Middle"
    /\ Len(call.out) - Len(NonPad(call.out, call.self.pad_char)) = 3
    /\ call.value # <<>>

KeptWidth(ij) ==
    IF LayoutOf(ij).upper_bound = <<>> THEN Width(CellOf(ij).value)
    ELSE Min(Width(CellOf(ij).value), LayoutOf(ij).upper_bound[1])

UnobservedRenderIsSafe ==
    (op = "render" /\ batch = <<>>) => ~panicked

\* whether a string starts, or ends, with another
StartsWith(text, prefix) ==
    /\ Len(prefix) <= Len(text)
    /\ SubSeq(text, 1, Len(prefix)) = prefix
EndsWith(text, suffix) ==
    /\ Len(suffix) <= Len(text)
    /\ SubSeq(text, Len(text) - Len(suffix) + 1, Len(text)) = suffix

\* C13: the text of a flush of a batch with rows starts with the string
\* given to set_begin and finishes with the string given to set_end
FlushFramedByBeginEnd ==
    (op = "flush" /\ flushed # <<>>) =>
       /\ StartsWith(ret, begin)
       /\ EndsWith(ret, end)

\* the cell append_data is to write for column j of the table from a source
AppendedCell(source, j) ==
    LET title == table.permutation[j]
    IN IF source[title.id] = <<>> THEN format_text(title.formatter, NA)
       ELSE format_text(title.formatter, source[title.id][1])

\* C14: append_data writes exactly one row to the Renderer, of one cell per
\* configured column in order: the formatter of the column applied to the
\* value of the source, or to "N/A" where the source has none
AppendWritesOneFormattedRow ==
    [][ op' = "append_data" =>
          LET queues == rules[table.row_id + 1].cols_dat
              after  == rules'[table.row_id + 1].cols_dat
          IN /\ write_logs' = Append(write_logs, table.row_id)
             /\ Len(after) = Len(table.permutation)
             /\ \A j \in DOMAIN table.permutation :
                   after[j] = Append(queues[j], AppendedCell(call'.source, j)) ]_vars

\* C14 happens: a source without value for a column whose formatter is not
\* the identity was appended behind a pending row, and the formatted
\* placeholder was queued
PlaceholderFormatted ==
    /\ op = "append_data"
    /\ call.source["b"] = <<>>
    /\ call.source["a"] # <<>>
    /\ table.permutation[2].formatter = "Starred"
    /\ Len(write_logs) >= 2
    /\ LET queue == rules[table.row_id + 1].cols_dat[2]
       IN queue[Len(queue)] = <<"N", "/", "A", "*">>

\* the number of rows pending for a handle: its entries in the write log
Pending(handle) ==
    Cardinality({ i \in DOMAIN write_logs : write_logs[i] = handle })

\* C15: in every state of one Renderer, every queue of a registered layout
\* is as long as the number of entries of its handle in the write log, every
\* Column of a layout with a pending row has min <= max, and no flush has
\* met an empty queue or min > max
QueuesInLockstep ==
    /\ ~panicked
    /\ \A i \in DOMAIN write_logs : write_logs[i] + 1 \in DOMAIN rules
    /\ \A h \in DOMAIN rules :
          /\ Len(rules[h].cols_dat) = Len(rules[h].def.columns)
          /\ \A q \in DOMAIN rules[h].cols_dat :
                Len(rules[h].cols_dat[q]) = Pending(h - 1)
          /\ Pending(h - 1) > 0 =>
                \A c \in Range(rules[h].def.columns) :
                   columns[c].min <= columns[c].max

\* C15 happens: after a flush, rows are pending for two layouts that share a
\* Column, two for one and one for the other
PendingOnSharingLayouts ==
    /\ seen
    /\ Len(rules) = 2
    /\ Pending(0) + Pending(1) = 3
    /\ Pending(0) > 0
    /\ Pending(1) > 0
    /\ Range(rules[1].def.columns) \cap Range(rules[2].def.columns) # {}

\* how often a character occurs in a string
Occurrences(text, ch) == Cardinality({ n \in DOMAIN text : text[n] = ch })

\* row i of the flush that ran last: the start token of its layout, its
\* rendered cells with the separator between each two, the end token
RenderedRow(i) ==
    LET def == Def(trace[i].layout)
    IN def.start
       \o Join([j \in DOMAIN trace[i].cells |-> trace[i].cells[j].text], def.sep)
       \o def.end

\* C16: the text of a flush of n >= 1 rows is the n rendered rows with the
\* configured newline between each two: n - 1 newlines, none after the last
\* row, and in a row of k columns k - 1 separators between start and end token
FlushJoinsRows ==
    (op = "flush" /\ flushed # <<>>) =>
       LET n == Len(flushed)
       IN /\ Len(trace) = n
          /\ ret = Join([i \in 1..n |-> RenderedRow(i)], newline)
          /\ Occurrences(ret, "\n") = n - 1
          /\ ~EndsWith(ret, newline)
          /\ \A i \in 1..n :
                LET def == Def(trace[i].layout)
                IN /\ Len(trace[i].cells) = Len(def.columns)
                   /\ Occurrences(RenderedRow(i), def.sep[1])
                        = Len(def.columns) - 1
                   /\ StartsWith(RenderedRow(i), def.start)
                   /\ EndsWith(RenderedRow(i), def.end)

\* C16 happens: two rows were flushed under a newline of two characters
TwoRowsUnderSetNewline ==
    /\ op = "flush"
    /\ Len(flushed) = 2
    /\ newline = <<"\r", "\n">>
    /\ Occurrences(ret, "\r") = 1
    /\ Occurrences(ret, ",") = 4

\* C17: register_layout returns the number of layouts registered before it,
\* adds one empty queue per column of the new layout and leaves the write
\* log, the earlier entries with their queues and every Column unchanged;
\* no step ever changes the layout a handle names
HandlesAreStable ==
    [][ /\ \A h \in DOMAIN rules :
              /\ h \in DOMAIN rules'
              /\ rules'[h].def = rules[h].def
        /\ op' = "register_layout" =>
              /\ ret' = Len(rules)
              /\ Len(rules') = Len(rules) + 1
              /\ rules'[ret' + 1].cols_dat
                   = [j \in 1..Len(rules'[ret' + 1].def.columns) |-> <<>>]
              /\ SubSeq(rules', 1, Len(rules)) = rules
              /\ write_logs' = write_logs
              /\ columns' = columns ]_vars

\* C17 happens: the second layout was registered while a row of the first
\* was pending and had widened a Column the two share
RegisteredWhilePending ==
    /\ op = "register_layout"
    /\ ret = 1
    /\ write_logs = <<0>>
    /\ \E c \in Range(rules[1].def.columns) \cap Range(rules[2].def.columns) :
          columns[c].max > 0
    /\ rules[2].cols_dat = <<<<>>, <<>>>>

\* the rows a flush of the table is to render: the titles if print_header,
\* then one row per source appended since the previous flush
TableRows(sources) ==
    LET rows == [i \in DOMAIN sources |->
                    [j \in DOMAIN table.permutation |-> AppendedCell(sources[i], j)]]
    IN IF table.print_header THEN <<table.titles>> \o rows ELSE rows

\* the widest cell of column j among rows
WidestOf(rows, j) ==
    LET widths == { Width(rows[i][j]) : i \in DOMAIN rows }
    IN CHOOSE w \in widths : \A v \in widths : v <= w

\* C18: with print_header the title row is pending from construction on and
\* after every flush, ahead of the appended rows; a flush renders it first
\* and once, its widths count in the widths of the batch, and a flush with
\* nothing appended returns the title row alone; without print_header only
\* the appended rows are pending and rendered
HeaderEveryFlush ==
    /\ Len(write_logs) = Len(TableRows(batch))
    /\ table.print_header =>
          \A j \in DOMAIN table.titles :
             Head(rules[table.row_id + 1].cols_dat[j]) = table.titles[j]
    /\ op = "table_flush" =>
          LET rows == TableRows(flushed)
          IN /\ ~panicked
             /\ Len(trace) = Len(rows)
             /\ \A i \in DOMAIN rows :
                   /\ Len(trace[i].cells) = Len(rows[i])
                   /\ \A j \in DOMAIN rows[i] :
                         /\ trace[i].cells[j].value = rows[i][j]
                         /\ trace[i].cells[j].max = WidestOf(rows, j)
             /\ ret = Join([i \in DOMAIN rows |-> RenderedRow(i)], newline)
             /\ (ret = <<>>) = (~table.print_header /\ flushed = <<>>)

\* C18 happens: a second flush with nothing appended since the first
\* returned the title row alone
HeaderAloneOnLaterFlush ==
    /\ op = "table_flush"
    /\ table.print_header
    /\ again
    /\ flushed = <<>>
    /\ ret = <<"N", "A", "M", "E", "S", "|", "#">>

\* the widest value among the given positions of the rows of the batch
\* written to a handle
WidestWritten(handle, positions) ==
    LET widths == { Width(flushed[k].data[p]) :
                      <<k, p>> \in { kp \in (DOMAIN flushed) \X positions :
                                        flushed[kp[1]].layout = handle } }
    IN CHOOSE w \in widths : \A v \in widths : v <= w

\* C19: the positions of a with_cols row are one Column cell, so a cell of
\* it is rendered under the widest value written to any position of the
\* row; the positions of a row from extend_column_layouts and
\* push_column_layout are cells of their own, and a cell of it is rendered
\* under the widest value written to its own position
WithColsSharesOneCell ==
    /\ \A h \in DOMAIN rules :
          Cardinality(Range(rules[h].def.columns))
             = IF rules[h].def = SharedRow.row THEN 1 ELSE SharedCols
    /\ op = "flush" =>
          \A i \in DOMAIN flushed : \A j \in DOMAIN flushed[i].data :
             LET handle == flushed[i].layout
             IN trace[i].cells[j].max
                  = IF Def(handle) = SharedRow.row
                    THEN WidestWritten(handle, 1..SharedCols)
                    ELSE WidestWritten(handle, {j})

\* C19 happens: the same row was written to both layouts and flushed; its
\* narrow first value was widened by its wide last value in the with_cols
\* row and not in the other
WidenedAcrossPositions ==
    /\ op = "flush"
    /\ Len(flushed) = 2
    /\ flushed[1].data = flushed[2].data
    /\ Width(flushed[1].data[1]) < Width(flushed[1].data[SharedCols])
    /\ \E i, k \in DOMAIN flushed :
          /\ Def(flushed[i].layout) = SharedRow.row
          /\ Def(flushed[k].layout) = OwnRow.row
          /\ Width(trace[i].cells[1].text) = Width(flushed[1].data[SharedCols])
          /\ Width(trace[k].cells[1].text) = Width(flushed[1].data[1])

\* the Column cells the layouts of a set and of a rules vector reference
CellsOf(layouts, rs) ==
    UNION ({ Range(l.columns) : l \in layouts }
           \cup { Range(rs[h].def.columns) : h \in DOMAIN rs })

\* C20: the cells of the clone are the cells of the original row; a flush of
\* the first Renderer resets every Column of its layouts also while the
\* second Renderer holds rows for them; a flush of the second Renderer that
\* finds a Column of its next row with min > max ends in the fatal
\* condition, as does every flush of pending rows that follows a flush of
\* the first Renderer directly
SharedColumnAcrossRenderers ==
    /\ [](CellsOf(other.templates, other.rules) = CellsOf(templates, rules))
    /\ [][ /\ (op' = "flush" /\ ~panicked') =>
                 \A c \in CellsOf({}, rules) :
                    columns'[c].min = UsizeMax /\ columns'[c].max = 0
           /\ ( /\ op' = "flush_other"
                /\ other.write_logs # <<>>
                /\ \E c \in Range(other.rules[Head(other.write_logs) + 1].def.columns) :
                      columns[c].min > columns[c].max ) => panicked'
           /\ ( /\ op = "flush"
                /\ ~panicked
                /\ rules # <<>>
                /\ op' = "flush_other"
                /\ other.write_logs # <<>> ) => panicked' ]_vars

\* C20 happens: the second Renderer held a row, the first was flushed after
\* rows of its own, and the flush of the second met the Column unobserved
OtherFlushMetResetColumn ==
    /\ op = "flush_other"
    /\ panicked
    /\ seen
    /\ columns[1].min = UsizeMax
    /\ columns[1].max = 0

====
